---- MODULE Spec2Model ----
(***************************************************************************)
(* Model of the Multicall client of EVMlord/multicall-sdk.                 *)
(*                                                                         *)
(* One invocation of a public operation is followed from the caller's      *)
(* call, through the single provider.call round trip, to the value the     *)
(* returned promise settles with.  The Multicall3 contract and the ethers  *)
(* ABI codec are the environment: the contract runs every call of the      *)
(* payload in order and answers with one (success, returnData) pair per    *)
(* call, or reverts as a whole; the codec decodes return bytes into        *)
(* Result values, or throws.                                               *)
(*                                                                         *)
(* Spec follows the Multicall class whose decoding operations all pass     *)
(* their payloads through _fullyUnwrap; SpecEm follows tryAggregate and    *)
(* aggregate3 of the class in src/ethers-multicall.ts, of which only the   *)
(* second does.  SpecNew starts at the constructor, SpecConcurrent runs    *)
(* two callers on one client, SpecValue passes aggregate3Value descriptors *)
(* with and without a value, and SpecRaw puts the decoding operations      *)
(* behind a transport that answers any raw array.  SpecUnwrap and          *)
(* SpecRevert apply the helpers _fullyUnwrap and decodeRevert to every     *)
(* argument of a bounded family.  In those two, op holds the call and its  *)
(* arguments and outcome the value returned.                               *)
(*                                                                         *)
(* JavaScript values are represented as tagged records:                    *)
(*   Scalar(v)            a primitive (string, bigint, boolean)            *)
(*   Result(names, items) an ethers Result; names[i] = NoName when the     *)
(*                        i-th component is unnamed                        *)
(*   List(items)          a plain JS array                                 *)
(*   Obj(names, items)    a plain JS object with the given keys            *)
(* Byte strings are the hex strings the code handles.  ABI encodings are   *)
(* abbreviated: a selector followed by a few bytes instead of 32-byte      *)
(* words.                                                                  *)
(***************************************************************************)
EXTENDS Integers, Sequences, FiniteSets, TLC

VARIABLES client, pc, op, rpcLog, chain, response, outcome

vars == <<client, pc, op, rpcLog, chain, response, outcome>>

-----------------------------------------------------------------------------
(* Bounds *)

\* longest list of call descriptors a caller passes
MaxCalls == 2

\* most components of a Result, or elements of an array, handed to _fullyUnwrap
MaxWidth == 2

-----------------------------------------------------------------------------
(* JavaScript values *)

NoName == ""

Scalar(v) == [k |-> "scalar", v |-> v]
Result(names, items) == [k |-> "result", names |-> names, items |-> items]
List(items) == [k |-> "array", items |-> items]
Obj(names, items) == [k |-> "object", names |-> names, items |-> items]

\* the outcome of an expression that may throw
Ok(v) == [ok |-> TRUE, val |-> v]
Throw(msg) == [ok |-> FALSE, msg |-> msg]

Min(a, b) == IF a <= b THEN a ELSE b

-----------------------------------------------------------------------------
(* The ABI codec (ethers Interface) of the contracts the caller batches *)

\* function names the caller's contract interface knows
AbiFunctions == {"name", "getReserves", "getTokenData", "getPosition"}

\* the Result the codec yields for a function's well-formed return bytes:
\* one item per declared output, named when the output is named
DecodedOutputs(fn) ==
  CASE fn = "name" ->
         Result(<<NoName>>, <<Scalar("ABC")>>)
    [] fn = "getReserves" ->
         Result(<<"reserve0", "reserve1">>, <<Scalar("7"), Scalar("9")>>)
    [] fn = "getTokenData" ->
         Result(<<NoName>>,
                <<Result(<<"token", "symbol">>, <<Scalar("0xaa"), Scalar("TKN")>>)>>)
    [] fn = "getPosition" ->
         Result(<<"id", "pos">>,
                <<Scalar("1"),
                  Result(<<"owner", "size">>, <<Scalar("0xbb"), Scalar("5")>>)>>)

\* 4-byte selector of a function, as hex
Selector(fn) ==
  CASE fn = "name" -> "0x06fdde03"
    [] fn = "getReserves" -> "0x0902f1ac"
    [] fn = "getTokenData" -> "0x7b6ef91f"
    [] fn = "getPosition" -> "0xeb02c301"

\* well-formed return bytes of a function (abbreviated encoding)
encodeFunctionResult(fn) ==
  CASE fn = "name" -> "0x20" \o "03" \o "414243"
    [] fn = "getReserves" -> "0x07" \o "09"
    [] fn = "getTokenData" -> "0xaa" \o "20" \o "03" \o "544b4e"
    [] fn = "getPosition" -> "0x01" \o "bb" \o "05"

\* contract.interface.encodeFunctionData(functionFragment, args):
\* throws when the interface has no such function
encodeFunctionData(fn) ==
  IF fn \in AbiFunctions
    THEN Ok(Selector(fn))
    ELSE Throw("no matching fragment")

\* contract.interface.decodeFunctionResult(functionFragment, data):
\* throws when the bytes are not an encoding of the function's outputs
decodeFunctionResult(fn, data) ==
  IF fn \in AbiFunctions /\ data = encodeFunctionResult(fn)
    THEN Ok(DecodedOutputs(fn))
    ELSE Throw("could not decode result data")

-----------------------------------------------------------------------------
(* ethers Result methods *)

isEthersResult(x) == x.k = "result"

\* Result.toArray(deep): a plain array of the items; nested Results are
\* converted too when deep is set
RECURSIVE toArray(_, _)
toArray(r, deep) ==
  List([i \in 1..Len(r.items) |->
          IF deep /\ isEthersResult(r.items[i])
            THEN toArray(r.items[i], deep)
            ELSE r.items[i]])

\* the codec's recursive helper behind toObject(deep = true): a Result with an
\* unnamed component becomes an array, any other an object keyed by its names
RECURSIVE toObjectDeep(_)
toObjectDeep(r) ==
  LET conv == [i \in 1..Len(r.items) |->
                 IF isEthersResult(r.items[i])
                   THEN toObjectDeep(r.items[i])
                   ELSE r.items[i]]
  IN  IF \E i \in 1..Len(r.names) : r.names[i] = NoName
        THEN List(conv)
        ELSE Obj(r.names, conv)

\* Result.toObject(true): throws when a component of the Result is unnamed
toObject(r) ==
  IF \E i \in 1..Len(r.names) : r.names[i] = NoName
    THEN Throw("value at index unnamed")
    ELSE Ok(toObjectDeep(r))

-----------------------------------------------------------------------------
(* helpers: _fullyUnwrap *)

\* _fullyUnwrap whose fallback returns the shallow array as it is
RECURSIVE fullyUnwrapShallowFallback(_)
fullyUnwrapShallowFallback(x) ==
  IF isEthersResult(x)
    THEN IF toObject(x).ok
           THEN toObject(x).val
           ELSE toArray(x, FALSE)
    ELSE IF x.k = "array"
           THEN List([i \in 1..Len(x.items) |->
                        fullyUnwrapShallowFallback(x.items[i])])
           ELSE x

RECURSIVE fullyUnwrap(_)
fullyUnwrap(x) ==
  IF isEthersResult(x)
    THEN IF toObject(x).ok
           THEN toObject(x).val
           ELSE LET arr == toArray(x, FALSE).items
                IN  List([i \in 1..Len(arr) |-> fullyUnwrap(arr[i])])
    ELSE IF x.k = "array"
           THEN List([i \in 1..Len(x.items) |-> fullyUnwrap(x.items[i])])
           ELSE x

-----------------------------------------------------------------------------
(* JavaScript strings and optional values *)

Undefined == [def |-> FALSE, s |-> ""]
Str(s) == [def |-> TRUE, s |-> s]

\* s.slice(from, to) with 0-based from, exclusive to, clamped to the length
slice(s, from, to) == SubSeq(s, from + 1, Min(to, Len(s)))

\* s.slice(from)
sliceFrom(s, from) == SubSeq(s, from + 1, Len(s))

startsWith(s, prefix) == slice(s, 0, Len(prefix)) = prefix

HexDigits ==
  {"0", "1", "2", "3", "4", "5", "6", "7", "8", "9", "a", "b", "c", "d", "e", "f"}

\* a 0x-prefixed string of whole bytes
isHexString(s) ==
  /\ startsWith(s, "0x")
  /\ Len(s) % 2 = 0
  /\ \A i \in 3..Len(s) : SubSeq(s, i, i) \in HexDigits

\* stands for the one-character ellipsis that closes the fallback message
Ellipsis == "..."

-----------------------------------------------------------------------------
(* AbiCoder and Interface.parseError, as decodeRevert uses them *)

\* AbiCoder.defaultAbiCoder().decode(["string"], data)
abiDecodeString(data) ==
  CASE data = "0x2004626f6f6d" -> Ok("boom")
    [] data = "0x2000" -> Ok("")
    [] OTHER -> Throw("data out-of-bounds")

\* AbiCoder.defaultAbiCoder().decode(["uint256"], data), rendered by toString()
abiDecodeUint(data) ==
  CASE data = "0x01" -> Ok("1")
    [] data = "0x11" -> Ok("17")
    [] data = "0x32" -> Ok("50")
    [] OTHER -> Throw("data out-of-bounds")

ErrorSelector == "0x08c379a0"
PanicSelector == "0x4e487b71"

\* the custom errors an interface may declare: selector, name and the
\* stringified arguments of each argument encoding
CustomErrorName(sel) ==
  CASE sel = "0xcf479181" -> "InsufficientBalance"
    [] sel = "0x82b42900" -> "Unauthorized"
    [] OTHER -> ""

CustomErrorArgs(sel, body) ==
  CASE sel = "0xcf479181" /\ body = "0x0305" -> Ok(<<"3", "5">>)
    [] sel = "0x82b42900" -> Ok(<<>>)
    [] OTHER -> Throw("data out-of-bounds")

NoParsed == [found |-> FALSE, name |-> "", args |-> <<>>]

\* contractIface.parseError(raw): throws on bytes that are not hex or whose
\* arguments do not decode, returns null for an unknown selector; the
\* built-in Error(string) and Panic(uint256) fragments resolve as well
parseError(iface, raw) ==
  LET sel == slice(raw, 0, 10)
      body == "0x" \o sliceFrom(raw, 10)
  IN  IF ~isHexString(raw) THEN Throw("invalid BytesLike value")
      ELSE IF sel = ErrorSelector
        THEN IF abiDecodeString(body).ok
               THEN Ok([found |-> TRUE, name |-> "Error",
                        args |-> <<abiDecodeString(body).val>>])
               ELSE Throw("data out-of-bounds")
      ELSE IF sel = PanicSelector
        THEN IF abiDecodeUint(body).ok
               THEN Ok([found |-> TRUE, name |-> "Panic",
                        args |-> <<abiDecodeUint(body).val>>])
               ELSE Throw("data out-of-bounds")
      ELSE IF CustomErrorName(sel) \in iface.errors
        THEN IF CustomErrorArgs(sel, body).ok
               THEN Ok([found |-> TRUE, name |-> CustomErrorName(sel),
                        args |-> CustomErrorArgs(sel, body).val])
               ELSE Throw("data out-of-bounds")
      ELSE Ok(NoParsed)

\* a join that separates the arguments by a comma alone
RECURSIVE joinNoSpace(_)
joinNoSpace(args) ==
  IF Len(args) = 0 THEN ""
  ELSE IF Len(args) = 1 THEN args[1]
  ELSE args[1] \o "," \o joinNoSpace(Tail(args))

\* args.map(String).join(", ")
RECURSIVE join(_)
join(args) ==
  IF Len(args) = 0 THEN ""
  ELSE IF Len(args) = 1 THEN args[1]
  ELSE args[1] \o ", " \o join(Tail(args))

-----------------------------------------------------------------------------
(* helpers: decodeRevert *)

\* an exception object with none of the fields decodeRevert reads
EmptyErr ==
  [reason |-> Undefined, shortMessage |-> Undefined, data |-> Undefined,
   revertReason |-> Undefined]

\* an interpretation that leaves Error(string) and Panic to parseError
decodeRevertDataParseOnly(raw, iface) ==
  LET parsed == parseError(iface, raw)
  IN  IF parsed.ok /\ parsed.val.found
        THEN parsed.val.name \o "(" \o join(parsed.val.args) \o ")"
      ELSE "(unrecognized revert: " \o slice(raw, 0, 42) \o Ellipsis \o ")"

\* an interpretation whose fallback shows the whole payload
decodeRevertDataWholePayload(raw, iface) ==
  LET body == "0x" \o sliceFrom(raw, 10)
      parsed == parseError(iface, raw)
  IN  IF slice(raw, 0, 10) = ErrorSelector /\ abiDecodeString(body).ok
        THEN abiDecodeString(body).val
      ELSE IF startsWith(raw, PanicSelector) /\ abiDecodeUint(body).ok
        THEN "Panic(" \o abiDecodeUint(body).val \o ")"
      ELSE IF parsed.ok /\ parsed.val.found
        THEN parsed.val.name \o "(" \o join(parsed.val.args) \o ")"
      ELSE "(unrecognized revert: " \o raw \o Ellipsis \o ")"

\* an interpretation that stops at the selector: an Error(string) or panic
\* payload whose body does not decode is answered with what is known so far
decodeRevertDataStopsAtSelector(raw, iface) ==
  LET body == "0x" \o sliceFrom(raw, 10)
      parsed == parseError(iface, raw)
  IN  IF slice(raw, 0, 10) = ErrorSelector
        THEN IF abiDecodeString(body).ok THEN abiDecodeString(body).val ELSE ""
      ELSE IF startsWith(raw, PanicSelector)
        THEN IF abiDecodeUint(body).ok
               THEN "Panic(" \o abiDecodeUint(body).val \o ")"
               ELSE "Panic()"
      ELSE IF parsed.ok /\ parsed.val.found
        THEN parsed.val.name \o "(" \o join(parsed.val.args) \o ")"
      ELSE "(unrecognized revert: " \o slice(raw, 0, 42) \o Ellipsis \o ")"

\* steps 3 to 5: interpret a 0x-prefixed byte string
decodeRevertData(raw, iface) ==
  LET body == "0x" \o sliceFrom(raw, 10)
      parsed == parseError(iface, raw)
  IN  IF slice(raw, 0, 10) = ErrorSelector /\ abiDecodeString(body).ok
        THEN abiDecodeString(body).val
      ELSE IF startsWith(raw, PanicSelector) /\ abiDecodeUint(body).ok
        THEN "Panic(" \o abiDecodeUint(body).val \o ")"
      ELSE IF parsed.ok /\ parsed.val.found
        THEN parsed.val.name \o "(" \o join(parsed.val.args) \o ")"
      ELSE "(unrecognized revert: " \o slice(raw, 0, 42) \o Ellipsis \o ")"

\* a decodeRevert that looks at the raw bytes before the exception's reason
decodeRevertBytesFirst(err, data, iface) ==
  IF data.def /\ startsWith(data.s, "0x")
    THEN decodeRevertData(data.s, iface)
  ELSE IF err.reason.def THEN err.reason.s
  ELSE IF err.shortMessage.def THEN err.shortMessage.s
  ELSE "(no revert data)"

decodeRevert(err, data, iface) ==
  LET raw == IF data.def THEN data
             ELSE IF err.data.def THEN err.data
             ELSE IF err.revertReason.def THEN err.revertReason
             ELSE Undefined
  IN  IF err.reason.def THEN err.reason.s
      ELSE IF err.shortMessage.def THEN err.shortMessage.s
      ELSE IF ~raw.def \/ raw.s = "" \/ ~startsWith(raw.s, "0x")
        THEN "(no revert data)"
      ELSE decodeRevertData(raw.s, iface)

-----------------------------------------------------------------------------
(* Call descriptors *)

\* interface of the contract the caller batches calls to
TokenIface == [errors |-> {"InsufficientBalance", "Unauthorized"}]

TokenContract == [target |-> "0x1111", interface |-> TokenIface]

Descriptor(fn, allowFailure, value) ==
  [contract |-> TokenContract, functionFragment |-> fn, args |-> <<>>,
   allowFailure |-> allowFailure, value |-> value]

\* the descriptors callers draw their batches from; the last one names a
\* function its contract's interface does not have
CallPool ==
  { Descriptor("name", TRUE, 10),
    Descriptor("getReserves", FALSE, 15),
    Descriptor("getTokenData", TRUE, 0),
    Descriptor("getPosition", FALSE, 5),
    Descriptor("nonExistedProperty", TRUE, 0) }

SeqsUpTo(S, n) == UNION {[1..m -> S] : m \in 0..n}

CallLists == SeqsUpTo(CallPool, MaxCalls)

\* calls.map(...) over encodeFunctionData: the first call that does not
\* encode makes the whole map throw
AllEncode(calls) ==
  \A i \in 1..Len(calls) : encodeFunctionData(calls[i].functionFragment).ok

EncodeError(calls) ==
  LET i == CHOOSE j \in 1..Len(calls) :
             /\ ~encodeFunctionData(calls[j].functionFragment).ok
             /\ \A h \in 1..(j - 1) : encodeFunctionData(calls[h].functionFragment).ok
  IN  encodeFunctionData(calls[i].functionFragment).msg

callData(c) == encodeFunctionData(c.functionFragment).val

\* payload of aggregate, tryAggregate and tryBlockAndAggregate
CallPayload(calls) ==
  [i \in 1..Len(calls) |->
     [target |-> calls[i].contract.target, callData |-> callData(calls[i])]]

\* payload of aggregate3
Call3Payload(calls) ==
  [i \in 1..Len(calls) |->
     [target |-> calls[i].contract.target,
      allowFailure |-> calls[i].allowFailure,
      callData |-> callData(calls[i])]]

\* payload of aggregate3Value
Call3ValuePayload(calls) ==
  [i \in 1..Len(calls) |->
     [target |-> calls[i].contract.target,
      allowFailure |-> calls[i].allowFailure,
      value |-> calls[i].value,
      callData |-> callData(calls[i])]]

\* a reduce that starts from the first value instead of adding it
RECURSIVE totalValueSkipsFirst(_)
totalValueSkipsFirst(calls) ==
  IF Len(calls) <= 1 THEN 0
  ELSE totalValueSkipsFirst(SubSeq(calls, 1, Len(calls) - 1)) + calls[Len(calls)].value

\* calls.reduce((sum, c) => sum + c.value, 0n)
RECURSIVE totalValue(_)
totalValue(calls) ==
  IF Len(calls) = 0 THEN 0
  ELSE totalValue(SubSeq(calls, 1, Len(calls) - 1)) + calls[Len(calls)].value

-----------------------------------------------------------------------------
(* Multicall: configuration and rpcCall *)

\* addresses.Multicall[ChainId.XRPLEVM_TESTNET], the address the constructor
\* resolves for the chain id the client is built with
Target == "0x3f012a7C54dF759B145740454f61A2F2457A3028"

\* the `value` argument of rpcCall when the caller passes none (undefined)
NoValue == -1

\* the transaction rpcCall hands to provider.call; `data` is the Multicall3
\* encoding of (method, params), kept as the pair it encodes
rpcCallTx(target, method, params, value) ==
  [to |-> target, method |-> method, params |-> params, value |-> value]

\* a transport call that is sent again after the first
providerCallTwice(log, tx) == Append(Append(log, tx), tx)

\* this.provider.call(tx): one round trip, recorded in the transport's log
providerCall(log, tx) == Append(log, tx)

-----------------------------------------------------------------------------
(* Multicall: what each operation asks of the transport *)

aggregateRequest(target, calls) ==
  rpcCallTx(target, "aggregate", [calls |-> CallPayload(calls)], NoValue)

\* requireSuccess not passed on to the contract
tryAggregateRequestLax(target, requireSuccess, calls) ==
  rpcCallTx(target, "tryAggregate",
            [requireSuccess |-> FALSE, calls |-> CallPayload(calls)], NoValue)

tryAggregateRequest(target, requireSuccess, calls) ==
  rpcCallTx(target, "tryAggregate",
            [requireSuccess |-> requireSuccess, calls |-> CallPayload(calls)],
            NoValue)

tryBlockAndAggregateRequest(target, requireSuccess, calls) ==
  rpcCallTx(target, "tryBlockAndAggregate",
            [requireSuccess |-> requireSuccess, calls |-> CallPayload(calls)],
            NoValue)

\* an alias that forwards requireSuccess = false
blockAndAggregateRequestLax(target, calls) ==
  tryBlockAndAggregateRequest(target, FALSE, calls)

\* blockAndAggregate(calls) { return this.tryBlockAndAggregate(true, calls) }
blockAndAggregateRequest(target, calls) ==
  tryBlockAndAggregateRequest(target, TRUE, calls)

aggregate3Request(target, calls) ==
  rpcCallTx(target, "aggregate3", [calls |-> Call3Payload(calls)], NoValue)

aggregate3ValueRequest(target, calls) ==
  rpcCallTx(target, "aggregate3Value", [calls |-> Call3ValuePayload(calls)],
            totalValue(calls))

Getters ==
  {"getBlockNumber", "getBlockHash", "getLastBlockHash",
   "getCurrentBlockTimestamp", "getCurrentBlockGasLimit",
   "getCurrentBlockCoinbase", "getEthBalance", "getBasefee", "getChainId"}

getterRequest(target, method) ==
  rpcCallTx(target, method, [calls |-> <<>>], NoValue)

-----------------------------------------------------------------------------
(* Multicall: per-result decoding (the fan-out over the raw results) *)

\* a single output left wrapped in its one-element array
rawOutputAlwaysArray(decoded) == toArray(decoded, TRUE)

\* decoded.length === 1 ? decoded[0] : decoded.toArray(true)
rawOutput(decoded) ==
  IF Len(decoded.items) = 1 THEN decoded.items[1] ELSE toArray(decoded, TRUE)

\* a callback that translates the bytes of a failed call into a reason
decodeResultRevertReason(calls, r, i) ==
  IF ~r.success
    THEN Ok(<<FALSE, Scalar("Revert: " \o decodeRevert(EmptyErr, Str(r.returnData),
                                                        TokenIface))>>)
  ELSE IF i > Len(calls)
    THEN Ok(<<FALSE, Scalar("Data handling error: "
                             \o "Cannot read properties of undefined")>>)
  ELSE LET d == decodeFunctionResult(calls[i].functionFragment, r.returnData)
       IN  IF d.ok
             THEN Ok(<<TRUE, fullyUnwrap(rawOutput(d.val))>>)
             ELSE Ok(<<FALSE, Scalar("Data handling error: " \o d.msg)>>)

\* a callback without the try/catch around the decoding
decodeResultUncaught(calls, r, i) ==
  IF ~r.success THEN Ok(<<FALSE, Scalar(r.returnData)>>)
  ELSE IF i > Len(calls) THEN Throw("Cannot read properties of undefined")
  ELSE LET d == decodeFunctionResult(calls[i].functionFragment, r.returnData)
       IN  IF d.ok
             THEN Ok(<<TRUE, fullyUnwrap(rawOutput(d.val))>>)
             ELSE Throw(d.msg)

\* the callback of rawResults.map((r, i) => ...): the entry for raw result i.
\* A raw result beyond the caller's list reads calls[i] as undefined, which
\* throws inside the try block.
decodeResult(calls, r, i) ==
  IF ~r.success THEN Ok(<<FALSE, Scalar(r.returnData)>>)
  ELSE IF i > Len(calls)
    THEN Ok(<<FALSE, Scalar("Data handling error: "
                             \o "Cannot read properties of undefined")>>)
  ELSE LET d == decodeFunctionResult(calls[i].functionFragment, r.returnData)
       IN  IF d.ok
             THEN Ok(<<TRUE, fullyUnwrap(rawOutput(d.val))>>)
             ELSE Ok(<<FALSE, Scalar("Data handling error: " \o d.msg)>>)

\* a fan-out that keeps only the results of the calls that succeeded
fanOutDroppingFailures(calls, rawResults) ==
  LET kept == SelectSeq(rawResults, LAMBDA r : r.success)
  IN  Ok([i \in 1..Len(kept) |-> decodeResult(calls, kept[i], i).val])

\* a fan-out that walks the input calls instead of the raw results: a call
\* without a raw result reads r.success of undefined outside the try
fanOutOverCalls(calls, rawResults) ==
  IF Len(calls) > Len(rawResults)
    THEN Throw("Cannot read properties of undefined")
    ELSE Ok([i \in 1..Len(calls) |-> decodeResult(calls, rawResults[i], i).val])

\* rawResults.map(...): an exception escaping the callback rejects the operation
fanOut(calls, rawResults) ==
  LET each == [i \in 1..Len(rawResults) |-> decodeResult(calls, rawResults[i], i)]
  IN  IF \A i \in 1..Len(each) : each[i].ok
        THEN Ok([i \in 1..Len(each) |-> each[i].val])
        ELSE Throw(each[CHOOSE i \in 1..Len(each) : ~each[i].ok].msg)

-----------------------------------------------------------------------------
(* Multicall: what each operation returns from the decoded rpcCall result *)

\* an aggregate that decodes the bytes of single-output calls
aggregateReturnDecoded(calls, res) ==
  Ok([blockNumber |-> res.blockNumber,
      returnData |->
        [i \in 1..Len(res.returnData) |->
           LET d == decodeFunctionResult(calls[i].functionFragment, res.returnData[i])
           IN  IF d.ok /\ Len(d.val.items) = 1 /\ d.val.items[1].k = "scalar"
                 THEN d.val.items[1].v
                 ELSE res.returnData[i]]])

aggregateReturn(calls, res) ==
  Ok([blockNumber |-> res.blockNumber, returnData |-> res.returnData])

tryAggregateReturn(calls, res) == fanOut(calls, res.returnData)

tryBlockAndAggregateReturn(calls, res) ==
  LET decoded == fanOut(calls, res.returnData)
  IN  IF decoded.ok
        THEN Ok([blockNumber |-> res.blockNumber, blockHash |-> res.blockHash,
                 returnData |-> decoded.val])
        ELSE decoded

aggregate3Return(calls, res) == fanOut(calls, res.returnData)

aggregate3ValueReturn(calls, res) == fanOut(calls, res.returnData)

\* .then((r) => r[0])
getterReturn(res) == Ok(res.values[1])

-----------------------------------------------------------------------------
(* The environment: the chain and the Multicall3 contract behind the provider *)

\* how one call of a batch ends on chain: it returns well-formed bytes, it
\* returns bytes its function's outputs do not decode from, it reverts with
\* unrecognized bytes, or it reverts with Error("boom")
Outcomes == {"ok", "garbage", "revert", "revertError"}

Blocks ==
  { [number |-> 42, hash |-> "0xabcdef"], [number |-> 123, hash |-> "0x123456"] }

FnOfSelector(cd) == CHOOSE fn \in AbiFunctions : Selector(fn) = cd

\* struct Result { bool success; bytes returnData; } of one executed call
Execute(cd, o) ==
  CASE o = "ok" ->
         [success |-> TRUE, returnData |-> encodeFunctionResult(FnOfSelector(cd))]
    [] o = "garbage" -> [success |-> TRUE, returnData |-> "0x1234"]
    [] o = "revert" -> [success |-> FALSE, returnData |-> "0xdeadbeef"]
    [] o = "revertError" ->
         [success |-> FALSE, returnData |-> ErrorSelector \o "2004626f6f6d"]

RECURSIVE SumValues(_)
SumValues(payload) ==
  IF Len(payload) = 0 THEN 0 ELSE payload[1].value + SumValues(Tail(payload))

\* the contract runs the calls of the payload in order and answers with one
\* Result per call, or reverts the whole eth_call
Multicall3(tx, outs, block) ==
  LET payload == tx.params.calls
      results == [i \in 1..Len(payload) |-> Execute(payload[i].callData, outs[i])]
      anyFailed == \E i \in 1..Len(payload) : ~results[i].success
      reverted == Throw("execution reverted")
  IN  CASE tx.method = "aggregate" ->
             IF anyFailed THEN reverted
             ELSE Ok([blockNumber |-> block.number,
                      returnData |-> [i \in 1..Len(payload) |-> results[i].returnData]])
        [] tx.method = "tryAggregate" ->
             IF tx.params.requireSuccess /\ anyFailed THEN reverted
             ELSE Ok([returnData |-> results])
        [] tx.method = "tryBlockAndAggregate" ->
             IF tx.params.requireSuccess /\ anyFailed THEN reverted
             ELSE Ok([blockNumber |-> block.number, blockHash |-> block.hash,
                      returnData |-> results])
        [] tx.method = "aggregate3" ->
             IF \E i \in 1..Len(payload) :
                  ~results[i].success /\ ~payload[i].allowFailure
               THEN reverted
             ELSE Ok([returnData |-> results])
        [] tx.method = "aggregate3Value" ->
             IF \/ \E i \in 1..Len(payload) :
                     ~results[i].success /\ ~payload[i].allowFailure
                \/ tx.value # SumValues(payload)
               THEN reverted
             ELSE Ok([returnData |-> results])
        [] OTHER -> Ok([values |-> <<Scalar("7")>>])

-----------------------------------------------------------------------------
(* State *)

NoOp == [name |-> "none", requireSuccess |-> FALSE, calls |-> <<>>]
NoResponse == [ok |-> FALSE, msg |-> "none"]

\* how the calls of the batch ended on chain, once the contract has run them
NoChain == [ran |-> FALSE, outs |-> <<>>]

Pending == [status |-> "pending"]
Resolved(v) == [status |-> "resolved", value |-> v]
Rejected(msg) == [status |-> "rejected", error |-> msg]

\* the promise an operation returned settles with what its body returned or threw
Settle(ret) == IF ret.ok THEN Resolved(ret.val) ELSE Rejected(ret.msg)

Init ==
  /\ client = [target |-> Target]
  /\ pc = "idle"
  /\ op = NoOp
  /\ rpcLog = <<>>
  /\ chain = NoChain
  /\ response = NoResponse
  /\ outcome = Pending

\* a Start that reports a call that does not encode in band, as a failed
\* entry of a resolved result
StartEncodingInBand(name, requireSuccess, calls, tx) ==
  /\ pc = "idle"
  /\ op' = [name |-> name, requireSuccess |-> requireSuccess, calls |-> calls]
  /\ IF AllEncode(calls)
       THEN /\ rpcLog' = providerCall(rpcLog, tx)
            /\ pc' = "awaiting"
            /\ outcome' = Pending
       ELSE /\ rpcLog' = rpcLog
            /\ pc' = "settled"
            /\ outcome' =
                 Resolved([i \in 1..Len(calls) |->
                             <<FALSE, Scalar("Data handling error: "
                                              \o EncodeError(calls))>>])
  /\ UNCHANGED <<client, chain, response>>

\* the synchronous part of an operation, up to its await of provider.call:
\* the payload is built, then rpcCall sends the transaction; a call that
\* does not encode rejects the operation before anything is sent
Start(name, requireSuccess, calls, tx) ==
  /\ pc = "idle"
  /\ op' = [name |-> name, requireSuccess |-> requireSuccess, calls |-> calls]
  /\ IF AllEncode(calls)
       THEN /\ rpcLog' = providerCall(rpcLog, tx)
            /\ pc' = "awaiting"
            /\ outcome' = Pending
       ELSE /\ rpcLog' = rpcLog
            /\ pc' = "settled"
            /\ outcome' = Rejected(EncodeError(calls))
  /\ UNCHANGED <<client, chain, response>>

\* Finish with the await wrapped in a try/catch that answers an empty list
FinishCatching(name, ret) ==
  /\ pc = "responded"
  /\ op.name = name
  /\ pc' = "settled"
  /\ outcome' = IF response.ok THEN Settle(ret) ELSE Resolved(<<>>)
  /\ UNCHANGED <<client, op, rpcLog, chain, response>>

\* the rest of an operation, once provider.call has settled: a rejection of
\* the await propagates, a result is decoded and returned
Finish(name, ret) ==
  /\ pc = "responded"
  /\ op.name = name
  /\ pc' = "settled"
  /\ outcome' = IF response.ok THEN Settle(ret) ELSE Rejected(response.msg)
  /\ UNCHANGED <<client, op, rpcLog, chain, response>>

-----------------------------------------------------------------------------
(* The public operations: the call, and its continuation after the await *)

aggregate ==
  \E calls \in CallLists :
    Start("aggregate", FALSE, calls, aggregateRequest(client.target, calls))

aggregateResumes ==
  Finish("aggregate", aggregateReturn(op.calls, response.val))

tryAggregate ==
  \E requireSuccess \in BOOLEAN, calls \in CallLists :
    Start("tryAggregate", requireSuccess, calls,
          tryAggregateRequest(client.target, requireSuccess, calls))

tryAggregateResumes ==
  Finish("tryAggregate", tryAggregateReturn(op.calls, response.val))

tryBlockAndAggregate ==
  \E requireSuccess \in BOOLEAN, calls \in CallLists :
    Start("tryBlockAndAggregate", requireSuccess, calls,
          tryBlockAndAggregateRequest(client.target, requireSuccess, calls))

tryBlockAndAggregateResumes ==
  Finish("tryBlockAndAggregate", tryBlockAndAggregateReturn(op.calls, response.val))

blockAndAggregate ==
  \E calls \in CallLists :
    Start("blockAndAggregate", FALSE, calls,
          blockAndAggregateRequest(client.target, calls))

blockAndAggregateResumes ==
  Finish("blockAndAggregate", tryBlockAndAggregateReturn(op.calls, response.val))

aggregate3 ==
  \E calls \in CallLists :
    Start("aggregate3", FALSE, calls, aggregate3Request(client.target, calls))

aggregate3Resumes ==
  Finish("aggregate3", aggregate3Return(op.calls, response.val))

aggregate3Value ==
  \E calls \in CallLists :
    Start("aggregate3Value", FALSE, calls,
          aggregate3ValueRequest(client.target, calls))

aggregate3ValueResumes ==
  Finish("aggregate3Value", aggregate3ValueReturn(op.calls, response.val))

getter ==
  \E method \in Getters :
    Start(method, FALSE, <<>>, getterRequest(client.target, method))

getterResumes ==
  \E method \in Getters : Finish(method, getterReturn(response.val))

-----------------------------------------------------------------------------
(* The transport *)

\* provider.call settles with what the contract answers: its result, or the
\* revert of the whole simulated call
providerCallReturns ==
  /\ pc = "awaiting"
  /\ \E block \in Blocks,
        outs \in [1..Len(rpcLog[Len(rpcLog)].params.calls) -> Outcomes] :
       /\ chain' = [ran |-> TRUE, outs |-> outs]
       /\ response' = Multicall3(rpcLog[Len(rpcLog)], outs, block)
  /\ pc' = "responded"
  /\ UNCHANGED <<client, op, rpcLog, outcome>>

\* provider.call rejects: the node cannot be reached
providerCallFails ==
  /\ pc = "awaiting"
  /\ response' = Throw("network error")
  /\ pc' = "responded"
  /\ UNCHANGED <<client, op, rpcLog, chain, outcome>>

Next ==
  \/ aggregate
  \/ aggregateResumes
  \/ tryAggregate
  \/ tryAggregateResumes
  \/ tryBlockAndAggregate
  \/ tryBlockAndAggregateResumes
  \/ blockAndAggregate
  \/ blockAndAggregateResumes
  \/ aggregate3
  \/ aggregate3Resumes
  \/ aggregate3Value
  \/ aggregate3ValueResumes
  \/ getter
  \/ getterResumes
  \/ providerCallReturns
  \/ providerCallFails

Spec == Init /\ [][Next]_vars

-----------------------------------------------------------------------------
(* Multicall: the constructor *)

\* an optional chain id: absent, or a number
NoChainId == [def |-> FALSE, v |-> 0]
ChainIdOf(v) == [def |-> TRUE, v |-> v]

\* addresses.Multicall[chainId]: the address deployed on a chain, if any
MulticallAddresses(chainId) ==
  CASE chainId = 1 -> Str("0x2c7002B316507F228BC6E10855856Ba93114EbB8")
    [] chainId = 56 -> Str("0x134f94adA24A7ed01AF204D72e7FcFf97E5538da")
    [] chainId = 97 -> Str("0x06084aF049CA61B1FC7E65a95dB09695E4014d5a")
    [] chainId = 42161 -> Str("0x2697B961c5504190502533b69177f3912d3D450B")
    [] chainId = 1449000 -> Str(Target)
    [] OTHER -> Undefined

\* what callers pass as chainId: nothing, zero, MAINNET, GOERLI (no address
\* deployed), XRPLEVM_TESTNET
ChainIdArgs == {NoChainId} \cup {ChainIdOf(v) : v \in {0, 1, 5, 1449000}}

\* what callers pass as multicallAddress: nothing, an empty string, an address
MulticallAddressArgs ==
  {Undefined, Str(""), Str("0xcA11bde05977b3631167028862bE2a173976CA11")}

\* the client before its constructor has run
NoClient == [target |-> ""]

\* multicallAddress ?? (chainId ? addresses.Multicall[chainId] : undefined)
addressOf(chainId, multicallAddress) ==
  IF multicallAddress.def THEN multicallAddress
  ELSE IF chainId.def /\ chainId.v # 0 THEN MulticallAddresses(chainId.v)
  ELSE Undefined

InitNew ==
  /\ client = NoClient
  /\ pc = "constructing"
  /\ op \in {[name |-> "constructor", chainId |-> c, multicallAddress |-> m] :
               c \in ChainIdArgs, m \in MulticallAddressArgs}
  /\ rpcLog = <<>>
  /\ chain = NoChain
  /\ response = NoResponse
  /\ outcome = Pending

\* new Multicall({ provider, chainId, multicallAddress }): throws when the
\* address is undefined or empty, else stores it as target
constructor ==
  /\ pc = "constructing"
  /\ LET address == addressOf(op.chainId, op.multicallAddress)
     IN  IF ~address.def \/ address.s = ""
           THEN /\ pc' = "settled"
                /\ outcome' = Rejected("No multicall address found")
                /\ client' = client
           ELSE /\ pc' = "idle"
                /\ outcome' = Pending
                /\ client' = [target |-> address.s]
  /\ UNCHANGED <<op, rpcLog, chain, response>>

NextNew == constructor \/ Next

SpecNew == InitNew /\ [][NextNew]_vars

-----------------------------------------------------------------------------
(* Multicall: operations issued concurrently on one client.  Every          *)
(* invocation has its own parameters and locals; the invocations share the  *)
(* client and the transport.  pc, op, chain, response and outcome hold one  *)
(* value per caller.                                                        *)

Callers == {"a", "b"}

BatchOps ==
  {"aggregate", "tryAggregate", "tryBlockAndAggregate", "blockAndAggregate",
   "aggregate3", "aggregate3Value"}

\* the batches concurrent callers pass
ConcurrentCallLists ==
  {<<>>} \cup {<<d>> : d \in {Descriptor("name", TRUE, 10),
                               Descriptor("getReserves", FALSE, 15),
                               Descriptor("getTokenData", TRUE, 0),
                               Descriptor("nonExistedProperty", TRUE, 0)}}

\* the transaction an operation sends
RequestOf(target, name, requireSuccess, calls) ==
  CASE name = "aggregate" -> aggregateRequest(target, calls)
    [] name = "tryAggregate" -> tryAggregateRequest(target, requireSuccess, calls)
    [] name = "tryBlockAndAggregate" ->
         tryBlockAndAggregateRequest(target, requireSuccess, calls)
    [] name = "blockAndAggregate" -> blockAndAggregateRequest(target, calls)
    [] name = "aggregate3" -> aggregate3Request(target, calls)
    [] name = "aggregate3Value" -> aggregate3ValueRequest(target, calls)

\* what an operation returns from the decoded rpcCall result
ReturnOf(name, calls, res) ==
  CASE name = "aggregate" -> aggregateReturn(calls, res)
    [] name = "tryAggregate" -> tryAggregateReturn(calls, res)
    [] name \in {"tryBlockAndAggregate", "blockAndAggregate"} ->
         tryBlockAndAggregateReturn(calls, res)
    [] name = "aggregate3" -> aggregate3Return(calls, res)
    [] name = "aggregate3Value" -> aggregate3ValueReturn(calls, res)

\* a continuation that reads the calls of the invocation started last
callsOfLatest(ops, p) ==
  LET started == {q \in Callers : ops[q].name # "none"}
      last == CHOOSE q \in started :
                \A r \in started : ops[r].request <= ops[q].request
  IN  ops[last].calls

\* the calls the continuation of p's invocation reads: its own parameter,
\* captured by the callback
callsOf(ops, p) == ops[p].calls

InitConcurrent ==
  /\ client = [target |-> Target]
  /\ pc = [p \in Callers |-> "idle"]
  /\ op = [p \in Callers |-> NoOp]
  /\ rpcLog = <<>>
  /\ chain = [p \in Callers |-> NoChain]
  /\ response = [p \in Callers |-> NoResponse]
  /\ outcome = [p \in Callers |-> Pending]

\* caller p invokes an operation: the payload is encoded and the request
\* sent, or the encoding throws
invoke(p) ==
  /\ pc[p] = "idle"
  /\ \E name \in BatchOps, requireSuccess \in BOOLEAN, calls \in ConcurrentCallLists :
       /\ name \in {"tryAggregate", "tryBlockAndAggregate"} \/ ~requireSuccess
       /\ op' = [op EXCEPT ![p] = [name |-> name, requireSuccess |-> requireSuccess,
                                   calls |-> calls, request |-> Len(rpcLog) + 1]]
       /\ IF AllEncode(calls)
            THEN /\ rpcLog' = providerCall(rpcLog,
                                RequestOf(client.target, name, requireSuccess, calls))
                 /\ pc' = [pc EXCEPT ![p] = "awaiting"]
                 /\ outcome' = outcome
            ELSE /\ rpcLog' = rpcLog
                 /\ pc' = [pc EXCEPT ![p] = "settled"]
                 /\ outcome' = [outcome EXCEPT ![p] = Rejected(EncodeError(calls))]
  /\ UNCHANGED <<client, chain, response>>

\* the transport answers p's request
answer(p) ==
  /\ pc[p] = "awaiting"
  /\ \E block \in Blocks,
        outs \in [1..Len(rpcLog[op[p].request].params.calls) -> Outcomes] :
       /\ chain' = [chain EXCEPT ![p] = [ran |-> TRUE, outs |-> outs]]
       /\ response' = [response EXCEPT ![p] =
                         Multicall3(rpcLog[op[p].request], outs, block)]
  /\ pc' = [pc EXCEPT ![p] = "responded"]
  /\ UNCHANGED <<client, op, rpcLog, outcome>>

\* the transport fails p's request
fail(p) ==
  /\ pc[p] = "awaiting"
  /\ response' = [response EXCEPT ![p] = Throw("network error")]
  /\ pc' = [pc EXCEPT ![p] = "responded"]
  /\ UNCHANGED <<client, op, rpcLog, chain, outcome>>

\* p's invocation resumes after its await and settles
resume(p) ==
  /\ pc[p] = "responded"
  /\ pc' = [pc EXCEPT ![p] = "settled"]
  /\ outcome' = [outcome EXCEPT ![p] =
                   IF response[p].ok
                     THEN Settle(ReturnOf(op[p].name, callsOf(op, p), response[p].val))
                     ELSE Rejected(response[p].msg)]
  /\ UNCHANGED <<client, op, rpcLog, chain, response>>

NextConcurrent ==
  \E p \in Callers : invoke(p) \/ answer(p) \/ fail(p) \/ resume(p)

SpecConcurrent == InitConcurrent /\ [][NextConcurrent]_vars

-----------------------------------------------------------------------------
(* The decoding operations behind a transport that answers any raw array:
   a provider that is not backed by a genuine Multicall3 may answer a batch
   with fewer or more results than it has calls.                           *)

\* the operations that decode the results of the calls
DecodingOps ==
  {"tryAggregate", "tryBlockAndAggregate", "blockAndAggregate", "aggregate3",
   "aggregate3Value"}

BlockOps == {"tryBlockAndAggregate", "blockAndAggregate"}

\* the raw results such a transport puts in its answer
RawPool ==
  { [success |-> TRUE, returnData |-> encodeFunctionResult("name")],
    [success |-> TRUE, returnData |-> encodeFunctionResult("getTokenData")],
    [success |-> TRUE, returnData |-> "0x1234"],
    [success |-> FALSE, returnData |-> "0xdeadbeef"] }

\* up to one result more than the longest batch
RawArrays == SeqsUpTo(RawPool, MaxCalls + 1)

\* provider.call settles with bytes that decode as a result of the method
\* called, with any array of raw results
providerCallReturnsRaw ==
  /\ pc = "awaiting"
  /\ op.name \in DecodingOps
  /\ \E block \in Blocks, raw \in RawArrays :
       response' =
         IF op.name \in BlockOps
           THEN Ok([blockNumber |-> block.number, blockHash |-> block.hash,
                    returnData |-> raw])
           ELSE Ok([returnData |-> raw])
  /\ pc' = "responded"
  /\ UNCHANGED <<client, op, rpcLog, chain, outcome>>

NextRaw ==
  \/ tryAggregate
  \/ tryAggregateResumes
  \/ tryBlockAndAggregate
  \/ tryBlockAndAggregateResumes
  \/ blockAndAggregate
  \/ blockAndAggregateResumes
  \/ aggregate3
  \/ aggregate3Resumes
  \/ aggregate3Value
  \/ aggregate3ValueResumes
  \/ providerCallReturnsRaw
  \/ providerCallFails

SpecRaw == Init /\ [][NextRaw]_vars

-----------------------------------------------------------------------------
(* Multicall.aggregate3Value called from JavaScript, where a descriptor may *)
(* come without the value the type Call3Value requires                      *)

\* descriptors with and without a value; NoValue stands for undefined
ValueCallPool ==
  { Descriptor("name", TRUE, 10),
    Descriptor("getReserves", FALSE, 15),
    Descriptor("name", TRUE, NoValue),
    Descriptor("nonExistedProperty", TRUE, NoValue) }

ValueCallLists == SeqsUpTo(ValueCallPool, MaxCalls)

\* calls.reduce((sum, c) => sum + c.value, 0n): adding undefined to a bigint
\* throws a TypeError
reduceValues(calls) ==
  IF \E i \in 1..Len(calls) : calls[i].value = NoValue
    THEN Throw("Cannot mix BigInt and other types, use explicit conversions")
    ELSE Ok(totalValue(calls))

\* aggregate3Value up to its await: the payload is encoded, the values are
\* summed, the request is sent; a throw in either step rejects the operation
aggregate3ValueAnyCalls ==
  \E calls \in ValueCallLists :
    /\ pc = "idle"
    /\ op' = [name |-> "aggregate3Value", requireSuccess |-> FALSE, calls |-> calls]
    /\ IF ~AllEncode(calls)
         THEN /\ rpcLog' = rpcLog
              /\ pc' = "settled"
              /\ outcome' = Rejected(EncodeError(calls))
         ELSE IF ~reduceValues(calls).ok
           THEN /\ rpcLog' = rpcLog
                /\ pc' = "settled"
                /\ outcome' = Rejected(reduceValues(calls).msg)
           ELSE /\ rpcLog' = providerCall(rpcLog,
                               rpcCallTx(client.target, "aggregate3Value",
                                         [calls |-> Call3ValuePayload(calls)],
                                         reduceValues(calls).val))
                /\ pc' = "awaiting"
                /\ outcome' = Pending
    /\ UNCHANGED <<client, chain, response>>

NextValue ==
  \/ aggregate3ValueAnyCalls
  \/ aggregate3ValueResumes
  \/ providerCallReturns
  \/ providerCallFails

SpecValue == Init /\ [][NextValue]_vars

-----------------------------------------------------------------------------
(* The Multicall class of src/ethers-multicall.ts: its tryAggregate.  The   *)
(* request, rpcCall and the failure and catch branches are those of the     *)
(* class above; the decoded outputs take another way to the caller.         *)

\* Array.isArray(dec) ? dec : Object.values(dec): a Result is an Array
emVals(dec) == dec

\* vals.length === 1 ? vals[0] : vals
emOutput(dec) ==
  IF Len(emVals(dec).items) = 1 THEN emVals(dec).items[1] ELSE emVals(dec)

\* the callback of rawResults.map((r, i) => ...) in tryAggregate
emDecodeResult(calls, r, i) ==
  IF ~r.success THEN Ok(<<FALSE, Scalar(r.returnData)>>)
  ELSE IF i > Len(calls)
    THEN Ok(<<FALSE, Scalar("Data handling error: "
                             \o "Cannot read properties of undefined")>>)
  ELSE LET d == decodeFunctionResult(calls[i].functionFragment, r.returnData)
       IN  IF d.ok
             THEN Ok(<<TRUE, emOutput(d.val)>>)
             ELSE Ok(<<FALSE, Scalar("Data handling error: " \o d.msg)>>)

emTryAggregateReturn(calls, res) ==
  Ok([i \in 1..Len(res.returnData) |->
        emDecodeResult(calls, res.returnData[i], i).val])

emTryAggregate ==
  \E requireSuccess \in BOOLEAN, calls \in CallLists :
    Start("tryAggregate", requireSuccess, calls,
          tryAggregateRequest(client.target, requireSuccess, calls))

emTryAggregateResumes ==
  Finish("tryAggregate", emTryAggregateReturn(op.calls, response.val))

\* the callback of rawResults.map((r, i) => ...) in aggregate3, the one
\* operation of this class that passes rawOutput to _fullyUnwrap
emAggregate3DecodeResult(calls, r, i) ==
  IF ~r.success THEN Ok(<<FALSE, Scalar(r.returnData)>>)
  ELSE IF i > Len(calls)
    THEN Ok(<<FALSE, Scalar("Data handling error: "
                             \o "Cannot read properties of undefined")>>)
  ELSE LET d == decodeFunctionResult(calls[i].functionFragment, r.returnData)
       IN  IF d.ok
             THEN Ok(<<TRUE, fullyUnwrap(rawOutput(d.val))>>)
             ELSE Ok(<<FALSE, Scalar("Data handling error: " \o d.msg)>>)

emAggregate3Return(calls, res) ==
  Ok([i \in 1..Len(res.returnData) |->
        emAggregate3DecodeResult(calls, res.returnData[i], i).val])

emAggregate3 ==
  \E calls \in CallLists :
    Start("aggregate3", FALSE, calls, aggregate3Request(client.target, calls))

emAggregate3Resumes ==
  Finish("aggregate3", emAggregate3Return(op.calls, response.val))

NextEm ==
  \/ emTryAggregate
  \/ emTryAggregateResumes
  \/ emAggregate3
  \/ emAggregate3Resumes
  \/ providerCallReturns
  \/ providerCallFails

SpecEm == Init /\ [][NextEm]_vars

-----------------------------------------------------------------------------
(* helpers._fullyUnwrap on its own: the values it is applied to *)

\* names of struct fields, in declaration order
FieldNames == <<"a", "b", "c", "d">>

ScalarValues == {Scalar("1"), Scalar("2")}

\* the names a Result of n components carries: a struct names them all, an
\* array or an unnamed tuple names none, a tuple may name only some
NameVectors(n) ==
  {[i \in 1..n |-> FieldNames[i]], [i \in 1..n |-> NoName]}
    \cup (IF n >= 2
            THEN {[i \in 1..n |-> IF i = 1 THEN FieldNames[1] ELSE NoName]}
            ELSE {})

\* the Results whose components are drawn from S
ResultsOver(S) ==
  UNION {{Result(nv, items) : nv \in NameVectors(n), items \in [1..n -> S]} :
           n \in 0..MaxWidth}

\* the plain arrays whose elements are drawn from S
ListsOver(S) ==
  UNION {{List(items) : items \in [1..n -> S]} : n \in 0..MaxWidth}

\* a value one level around c: c alone, or c beside a scalar.  The codec
\* puts only scalars and Results inside a Result; a plain array (the outcome
\* of toArray) holds anything
Wrappings(c) ==
  LET beside == UNION {{<<c, s>>, <<s, c>>} : s \in ScalarValues}
  IN  {List(<<c>>)} \cup {List(items) : items \in beside}
        \cup (IF c.k \in {"scalar", "result"}
                THEN {Result(nv, <<c>>) : nv \in NameVectors(1)}
                       \cup {Result(nv, items) :
                               nv \in NameVectors(2), items \in beside}
                ELSE {})

Level1 == ResultsOver(ScalarValues) \cup ListsOver(ScalarValues)
Level2 == UNION {Wrappings(c) : c \in Level1}
Level3 == UNION {Wrappings(c) : c \in Level2}

\* what _fullyUnwrap is handed: scalars, and Results and arrays nested up to
\* three levels
UnwrapInputs == ScalarValues \cup Level1 \cup Level2 \cup Level3

InitUnwrap ==
  /\ client = [target |-> Target]
  /\ pc = "called"
  /\ op \in {[name |-> "_fullyUnwrap", x |-> x] : x \in UnwrapInputs}
  /\ rpcLog = <<>>
  /\ chain = NoChain
  /\ response = NoResponse
  /\ outcome = Pending

\* _fullyUnwrap(x) returns
fullyUnwrapReturns ==
  /\ pc = "called"
  /\ op.name = "_fullyUnwrap"
  /\ pc' = "settled"
  /\ outcome' = Resolved(fullyUnwrap(op.x))
  /\ UNCHANGED <<client, op, rpcLog, chain, response>>

\* the caller hands what _fullyUnwrap returned to _fullyUnwrap again
fullyUnwrapAgain ==
  /\ pc = "settled"
  /\ op.name = "_fullyUnwrap"
  /\ op.x # outcome.value
  /\ op' = [name |-> "_fullyUnwrap", x |-> outcome.value]
  /\ pc' = "called"
  /\ outcome' = Pending
  /\ UNCHANGED <<client, rpcLog, chain, response>>

NextUnwrap == fullyUnwrapReturns \/ fullyUnwrapAgain

SpecUnwrap == InitUnwrap /\ [][NextUnwrap]_vars

-----------------------------------------------------------------------------
(* Vocabulary of the properties *)

\* the operation has settled with a value
Returned(names) ==
  pc = "settled" /\ op.name \in names /\ outcome.status = "resolved"

\* the [success, payload] entries a decoding operation resolved with
Entries == IF op.name \in BlockOps THEN outcome.value.returnData ELSE outcome.value

\* the raw results the aggregator answered with
RawResults == response.val.returnData

FnOf(i) == op.calls[i].functionFragment

\* raw result i reports success and its bytes decode against call i's function
Decodes(i) ==
  RawResults[i].success /\ decodeFunctionResult(FnOf(i), RawResults[i].returnData).ok

\* no codec-native Result at any depth of a value
RECURSIVE IsPlain(_)
IsPlain(x) ==
  /\ x.k # "result"
  /\ x.k \in {"array", "object"} => \A i \in 1..Len(x.items) : IsPlain(x.items[i])

\* the scalars of a value, left to right
RECURSIVE Leaves(_)
RECURSIVE LeavesOfSeq(_)
Leaves(x) == IF x.k = "scalar" THEN <<x.v>> ELSE LeavesOfSeq(x.items)
LeavesOfSeq(items) ==
  IF Len(items) = 0 THEN <<>> ELSE Leaves(items[1]) \o LeavesOfSeq(Tail(items))

-----------------------------------------------------------------------------
(* Properties *)

\* C1: tryAggregate, tryBlockAndAggregate, blockAndAggregate and aggregate3
\* send one payload element per input call, in input order, and resolve with
\* exactly one entry per input call, in input order: entry i is flagged true
\* exactly when raw result i succeeded and decodes against call i's function,
\* and then carries the outputs of call i's function.
C1_OneEntryPerCallInOrder ==
  Returned({"tryAggregate", "tryBlockAndAggregate", "blockAndAggregate", "aggregate3"}) =>
    /\ Len(rpcLog[1].params.calls) = Len(op.calls)
    /\ \A i \in 1..Len(op.calls) :
         rpcLog[1].params.calls[i].callData = Selector(FnOf(i))
    /\ Len(Entries) = Len(op.calls)
    /\ \A i \in 1..Len(op.calls) :
         /\ Entries[i][1] = Decodes(i)
         /\ Entries[i][1] => Leaves(Entries[i][2]) = Leaves(DecodedOutputs(FnOf(i)))
         /\ ~RawResults[i].success => Leaves(Entries[i][2]) = <<RawResults[i].returnData>>

\* C1 witness: a two-call batch of different functions resolved with one
\* failed and one decoded entry
C1_Witness ==
  /\ Returned({"tryAggregate", "aggregate3"})
  /\ Len(op.calls) = 2
  /\ FnOf(1) # FnOf(2)
  /\ ~Entries[1][1]
  /\ Entries[2][1]

\* C2: in every decoding batch operation a raw result with success = false
\* yields [false, "Revert: " + decodeRevert({}, rawReturnData, abi of the call)].
C2_FailureIsRevertReason ==
  Returned(DecodingOps) =>
    \A i \in 1..Len(RawResults) :
      ~RawResults[i].success =>
        Entries[i] =
          <<FALSE,
            Scalar("Revert: "
                   \o decodeRevert(EmptyErr, Str(RawResults[i].returnData),
                                   op.calls[i].contract.interface))>>

C4_DecodeErrorIsLocal ==
  (pc = "settled" /\ op.name \in DecodingOps /\ response.ok) =>
    /\ outcome.status = "resolved"
    /\ \A i \in 1..Len(RawResults) :
         (RawResults[i].success /\ ~Decodes(i)) =>
           /\ Entries[i] =
                <<FALSE,
                  Scalar("Data handling error: "
                         \o decodeFunctionResult(FnOf(i), RawResults[i].returnData).msg)>>
           /\ LET repaired ==
                    [RawResults EXCEPT ![i].returnData = encodeFunctionResult(FnOf(i))]
              IN  \A j \in 1..Len(RawResults) :
                    j # i => Entries[j] = fanOut(op.calls, repaired).val[j]

\* C4 witness: a two-call batch resolved with a decode error beside a decoded entry
C4_Witness ==
  /\ Returned(DecodingOps)
  /\ Len(RawResults) = 2
  /\ \E i, j \in 1..2 :
       /\ RawResults[i].success /\ ~Decodes(i)
       /\ Entries[j][1]

\* the arithmetic sum of the value fields of a list of calls
RECURSIVE ExactSum(_)
ExactSum(calls) == IF Len(calls) = 0 THEN 0 ELSE calls[1].value + ExactSum(Tail(calls))

\* C5: for every list of calls passed to aggregate3Value, the empty list
\* included, the one transaction handed to the transport carries as value the
\* exact sum of the calls' value fields.
C5_ValueIsSumOfCallValues ==
  (op.name = "aggregate3Value" /\ AllEncode(op.calls)) =>
    /\ Len(rpcLog) = 1
    /\ rpcLog[1].method = "aggregate3Value"
    /\ rpcLog[1].value = ExactSum(op.calls)
    /\ Len(op.calls) = 0 => rpcLog[1].value = 0

\* C5 witness: calls with values 10 and 15 were sent with value 25
C5_Witness ==
  /\ Returned({"aggregate3Value"})
  /\ Len(op.calls) = 2
  /\ op.calls[1].value = 10
  /\ op.calls[2].value = 15
  /\ rpcLog[1].value = 25

\* a call of the batch reverted on chain
SomeCallFailed ==
  chain.ran /\ \E i \in 1..Len(chain.outs) : chain.outs[i] \in {"revert", "revertError"}

C8_AggregateForwardsRaw ==
  (pc = "settled" /\ op.name = "aggregate" /\ response.ok) =>
    /\ outcome.status = "resolved"
    /\ outcome.value.blockNumber = response.val.blockNumber
    /\ Len(outcome.value.returnData) = Len(op.calls)
    /\ \A i \in 1..Len(op.calls) :
         /\ outcome.value.returnData[i] = response.val.returnData[i]
         /\ chain.outs[i] = "ok" =>
              outcome.value.returnData[i] = encodeFunctionResult(FnOf(i))
         /\ chain.outs[i] = "garbage" => outcome.value.returnData[i] = "0x1234"

\* C8 witness: an aggregate of two calls resolved, one of them with bytes
\* that would not decode
C8_Witness ==
  /\ Returned({"aggregate"})
  /\ Len(op.calls) = 2
  /\ outcome.value.returnData[1] = encodeFunctionResult("name")
  /\ outcome.value.returnData[2] = "0x1234"

\* C9: blockAndAggregate(calls) sends the one transaction
\* tryBlockAndAggregate(true, calls) sends, and settles as it does: with
\* blockNumber and blockHash as answered and the decoded entries, or with
\* the transport's rejection.
C9_BlockAndAggregateIsStrictAlias ==
  (op.name = "blockAndAggregate" /\ AllEncode(op.calls)) =>
    /\ rpcLog =
         <<[to |-> client.target, method |-> "tryBlockAndAggregate",
            params |-> [requireSuccess |-> TRUE, calls |-> CallPayload(op.calls)],
            value |-> NoValue]>>
    /\ pc = "settled" =>
         IF response.ok
           THEN /\ outcome.status = "resolved"
                /\ outcome.value.blockNumber = response.val.blockNumber
                /\ outcome.value.blockHash = response.val.blockHash
                /\ outcome = Settle(tryBlockAndAggregateReturn(op.calls, response.val))
                /\ ~SomeCallFailed
           ELSE outcome = Rejected(response.msg)

\* C9 witness: blockAndAggregate of two calls resolved with the block's hash
C9_Witness ==
  /\ Returned({"blockAndAggregate"})
  /\ Len(op.calls) = 2
  /\ outcome.value.blockHash = "0xabcdef"
  /\ Entries[1][1]

\* C9 second case: blockAndAggregate rejected because a call reverted
C9_WitnessRejected ==
  /\ pc = "settled"
  /\ op.name = "blockAndAggregate"
  /\ SomeCallFailed
  /\ outcome = Rejected("execution reverted")

\* C10: an invocation of a public read operation calls the transport at
\* most once: exactly once when it has resolved, and still once after the
\* transport has failed, whatever the number of calls in the batch.
C10_AtMostOneRoundTrip ==
  /\ Len(rpcLog) <= 1
  /\ outcome.status = "resolved" => Len(rpcLog) = 1
  /\ (pc \in {"responded", "settled"} /\ response # NoResponse /\ ~response.ok) =>
       Len(rpcLog) = 1

\* C10 witness: a two-call batch was rejected after the transport failed,
\* with one round trip made
C10_Witness ==
  /\ pc = "settled"
  /\ Len(op.calls) = 2
  /\ response = Throw("network error")
  /\ outcome.status = "rejected"
  /\ Len(rpcLog) = 1

\* C10 second case: a metadata getter resolved after one round trip
C10_WitnessGetter ==
  /\ pc = "settled"
  /\ op.name \in Getters
  /\ outcome = Resolved(Scalar("7"))
  /\ Len(rpcLog) = 1

\* C11: when the transport raises during a batching operation, because the
\* node cannot be reached or because it rejects the whole simulated batch,
\* the operation rejects with that very error: it does not resolve, with a
\* list of entries or anything else, and the error is not replaced by another.
C11_TransportErrorPropagates ==
  (pc = "settled" /\ response # NoResponse /\ ~response.ok) =>
    /\ outcome.status = "rejected"
    /\ outcome.error = response.msg

\* C11 witness: aggregate3 over two calls rejected with the network error
\* the transport raised
C11_Witness ==
  /\ pc = "settled"
  /\ op.name = "aggregate3"
  /\ Len(op.calls) = 2
  /\ response = Throw("network error")
  /\ outcome = Rejected("network error")

\* C11 second case: the node rejected the whole batch of an aggregate3 whose
\* failing call did not allow failure
C11_WitnessReverted ==
  /\ pc = "settled"
  /\ op.name = "aggregate3"
  /\ chain.ran
  /\ response = Throw("execution reverted")
  /\ outcome = Rejected("execution reverted")

-----------------------------------------------------------------------------
(* helpers.decodeRevert on its own: the arguments it is called with *)

\* an interface that declares no custom error
PlainIface == [errors |-> {}]

\* return data of failed calls, and strings that are no byte strings
BoomBytes == ErrorSelector \o "2004626f6f6d"
EmptyReasonBytes == ErrorSelector \o "2000"
PanicOneBytes == PanicSelector \o "01"
PanicOverflowBytes == PanicSelector \o "11"
InsufficientBalanceBytes == "0xcf479181" \o "0305"
UnauthorizedBytes == "0x82b42900"
LongBytes == "0xdeadbeef" \o "00112233445566778899aabbccddeeff" \o "0011223344"

RevertStrings ==
  {"", "oops", "0x", "0xdeadbeef", LongBytes,
   BoomBytes, EmptyReasonBytes, ErrorSelector \o "ff", ErrorSelector,
   PanicOneBytes, PanicOverflowBytes, PanicSelector \o "ff", PanicSelector,
   InsufficientBalanceBytes, UnauthorizedBytes, "0xcf479181", "0xzz"}

\* the data argument: undefined, or a string
DataArgs == {Undefined} \cup {Str(s) : s \in RevertStrings}

\* what the caller passes as err: an object, null or undefined
ErrKinds == {"object", "null", "undefined"}

\* err?.reason, err?.shortMessage, err?.data, err?.receipt?.revertReason:
\* optional chaining reads every field of null or undefined as undefined
optionalChain(kind, err) == IF kind = "object" THEN err ELSE EmptyErr

\* a call that reads err.reason without the optional chaining
decodeRevertCallUnguarded(kind, err, data, iface) ==
  IF kind = "object"
    THEN Ok(decodeRevert(err, data, iface))
    ELSE Throw("Cannot read properties of " \o kind \o " (reading 'reason')")

\* a call of decodeRevert as its caller sees it: every expression of the
\* body that can throw stands inside a try whose catch falls through, so
\* the call ends by returning
decodeRevertCall(kind, err, data, iface) ==
  Ok(decodeRevert(optionalChain(kind, err), data, iface))

\* the exceptions: each field decodeRevert reads is absent or a string;
\* revertReason is the field of err.receipt
Exceptions ==
  [reason : {Undefined, Str("insufficient funds")},
   shortMessage : {Undefined, Str("execution reverted")},
   data : {Undefined, Str("oops"), Str(BoomBytes), Str(UnauthorizedBytes)},
   revertReason : {Undefined, Str(PanicOneBytes)}]

InitRevert ==
  /\ client = [target |-> Target]
  /\ pc = "called"
  /\ \E kind \in ErrKinds :
       op \in {[name |-> "decodeRevert", kind |-> kind, err |-> e, data |-> d,
                iface |-> f] :
                  e \in (IF kind = "object" THEN Exceptions ELSE {EmptyErr}),
                  d \in DataArgs, f \in {TokenIface, PlainIface}}
  /\ rpcLog = <<>>
  /\ chain = NoChain
  /\ response = NoResponse
  /\ outcome = Pending

\* decodeRevert(err, data, contractIface) returns
decodeRevertReturns ==
  /\ pc = "called"
  /\ op.name = "decodeRevert"
  /\ pc' = "settled"
  /\ outcome' = Settle(decodeRevertCall(op.kind, op.err, op.data, op.iface))
  /\ UNCHANGED <<client, op, rpcLog, chain, response>>

NextRevert == decodeRevertReturns

SpecRevert == InitRevert /\ [][NextRevert]_vars

-----------------------------------------------------------------------------
(* Properties of _fullyUnwrap *)

\* _fullyUnwrap has returned
Unwrapped == pc = "settled" /\ op.name = "_fullyUnwrap"

\* a Result all of whose components, at least one, carry a name
IsNamedStruct(x) ==
  /\ x.k = "result"
  /\ Len(x.items) >= 1
  /\ \A i \in 1..Len(x.names) : x.names[i] # NoName

\* the plain value a decoded value stands for: a named struct is the record
\* of its fields, any other Result (an unnamed tuple, an array) and any
\* array is the list of its elements, a scalar is itself
RECURSIVE Flattened(_)
Flattened(x) ==
  IF x.k = "scalar" THEN x
  ELSE LET kids == [i \in 1..Len(x.items) |-> Flattened(x.items[i])]
       IN  IF x.k = "object" \/ IsNamedStruct(x)
             THEN Obj(x.names, kids)
             ELSE List(kids)

\* C12: for every Result that is a named struct, whatever its field values
\* are (scalars, nested named structs, nested unnamed tuples or arrays),
\* _fullyUnwrap returns a record with exactly one entry per field name, in
\* which every field holds the flattened value of that field.
C12_NamedStructIsRecord ==
  (Unwrapped /\ IsNamedStruct(op.x)) =>
    /\ outcome.value.k = "object"
    /\ outcome.value.names = op.x.names
    /\ outcome.value = Flattened(op.x)

\* C13: for every Result that is an unnamed tuple or an array (of scalars,
\* tuples or structs), _fullyUnwrap returns a list with as many elements as
\* the Result has, in the same order, element k being _fullyUnwrap of child
\* k; a child that is a named struct is there as the record of its fields.
C13_UnnamedTupleIsList ==
  (Unwrapped /\ op.x.k = "result" /\ ~IsNamedStruct(op.x)) =>
    /\ outcome.value.k = "array"
    /\ Len(outcome.value.items) = Len(op.x.items)
    /\ \A k \in 1..Len(op.x.items) :
         /\ outcome.value.items[k] = fullyUnwrap(op.x.items[k])
         /\ IsNamedStruct(op.x.items[k]) =>
              /\ outcome.value.items[k].k = "object"
              /\ outcome.value.items[k].names = op.x.items[k].names

\* C14: _fullyUnwrap applied to a value it returned, a scalar, a list or a
\* record, returns that value.
C14_Idempotent ==
  Unwrapped => fullyUnwrap(outcome.value) = outcome.value

\* C14 witness: a list holding a record, returned by _fullyUnwrap, was handed
\* to it again and came back equal
C14_Witness ==
  /\ Unwrapped
  /\ op.x.k = "array"
  /\ \E i \in 1..Len(op.x.items) : op.x.items[i].k = "object"
  /\ outcome.value = op.x

\* C15: the value _fullyUnwrap returns is made of scalars, lists and
\* records only, and hence the payload of every [true, payload] entry an
\* operation resolves with holds no Result at any depth.
C15_NoResultReachesCaller ==
  /\ Unwrapped => IsPlain(outcome.value)
  /\ Returned(DecodingOps) =>
       \A i \in 1..Len(Entries) : Entries[i][1] => IsPlain(Entries[i][2])

\* C16: when a call's function has two or more outputs and one of them is a
\* named struct, the payload of the call's [true, payload] entry holds that
\* struct, at its position, as the record of its fields, not as the list
\* of its field values.
C16_StructInMultiOutputIsRecord ==
  Returned(DecodingOps) =>
    \A i \in 1..Len(Entries) :
      (Decodes(i) /\ Len(DecodedOutputs(FnOf(i)).items) >= 2) =>
        \A k \in 1..Len(DecodedOutputs(FnOf(i)).items) :
          IsNamedStruct(DecodedOutputs(FnOf(i)).items[k]) =>
            /\ Entries[i][2].items[k].k = "object"
            /\ Entries[i][2].items[k] = Flattened(DecodedOutputs(FnOf(i)).items[k])

\* C30: for a Result with zero elements, as the codec yields for an empty
\* array of tuples or structs, _fullyUnwrap returns an empty list, not an
\* empty record.
C30_EmptyResultIsEmptyList ==
  (Unwrapped /\ op.x.k = "result" /\ Len(op.x.items) = 0) =>
    outcome.value = List(<<>>)

-----------------------------------------------------------------------------
(* Properties of decodeRevert *)

\* decodeRevert has returned
Reverted == pc = "settled" /\ op.name = "decodeRevert"

\* the exception carries neither a reason nor a short message
NoReason == ~op.err.reason.def /\ ~op.err.shortMessage.def

\* C17: called with an exception that carries no reason and with the bytes
\* as data, decodeRevert returns the decoded text when the bytes start with
\* the Error(string) selector and decode as a string ("boom" for
\* Error("boom")), "Panic(" + decimal code + ")" when they start with the
\* panic selector and decode as an unsigned integer ("Panic(1)" for code
\* 0x01), and a string starting with "(unrecognized revert:" when they match
\* neither selector nor a custom error of the interface, as 0xdeadbeef.
C17_StandardRevertsDecoded ==
  (Reverted /\ NoReason /\ op.data.def /\ isHexString(op.data.s)) =>
    LET raw == op.data.s
        body == "0x" \o sliceFrom(raw, 10)
        sel == slice(raw, 0, 10)
    IN  /\ (sel = ErrorSelector /\ abiDecodeString(body).ok) =>
             outcome.value = abiDecodeString(body).val
        /\ raw = BoomBytes => outcome.value = "boom"
        /\ (sel = PanicSelector /\ abiDecodeUint(body).ok) =>
             outcome.value = "Panic(" \o abiDecodeUint(body).val \o ")"
        /\ raw = PanicOneBytes => outcome.value = "Panic(1)"
        /\ (sel \notin {ErrorSelector, PanicSelector}
              /\ CustomErrorName(sel) \notin op.iface.errors) =>
             startsWith(outcome.value, "(unrecognized revert:")
        /\ raw = "0xdeadbeef" => startsWith(outcome.value, "(unrecognized revert:")

\* C17 witness: the bytes of Error("boom") came back as "boom"
C17_Witness ==
  /\ Reverted /\ NoReason
  /\ op.data = Str(BoomBytes)
  /\ outcome.value = "boom"

\* C17 second case: the panic bytes with code 0x01 came back as "Panic(1)"
C17_WitnessPanic ==
  /\ Reverted /\ NoReason
  /\ op.data = Str(PanicOneBytes)
  /\ outcome.value = "Panic(1)"

\* C17 third case: 0xdeadbeef came back as an unrecognized revert
C17_WitnessUnrecognized ==
  /\ Reverted /\ NoReason
  /\ op.data = Str("0xdeadbeef")
  /\ startsWith(outcome.value, "(unrecognized revert:")

\* C18: when the exception carries a string reason, decodeRevert returns it
\* verbatim; when it carries no reason but a string short message, it
\* returns that; the data argument and the exception's other fields are
\* ignored, whatever they hold.
C18_ReasonVerbatim ==
  Reverted =>
    /\ op.err.reason.def => outcome.value = op.err.reason.s
    /\ (~op.err.reason.def /\ op.err.shortMessage.def) =>
         outcome.value = op.err.shortMessage.s

\* C18 witness: the reason was returned although the data argument held the
\* bytes of Error("boom")
C18_Witness ==
  /\ Reverted
  /\ op.err.reason = Str("insufficient funds")
  /\ op.data = Str(BoomBytes)
  /\ outcome.value = "insufficient funds"

\* C18 second case: the short message was returned, no reason being there
C18_WitnessShortMessage ==
  /\ Reverted
  /\ ~op.err.reason.def
  /\ op.data = Str(PanicOneBytes)
  /\ outcome.value = "execution reverted"

\* the three sources of revert data, in the order they are tried
Sources == <<op.data, op.err.data, op.err.revertReason>>

\* C19: with no reason and no short message, decodeRevert returns
\* "(no revert data)" only if none of the data argument, the exception's
\* data and the receipt's revertReason is a 0x-prefixed hex byte string:
\* whenever one of the three is, the result is not "(no revert data)".
C19_NoRevertDataOnlyWithoutBytes ==
  (Reverted /\ NoReason) =>
    ((\E i \in 1..3 : Sources[i].def /\ isHexString(Sources[i].s)) =>
       outcome.value # "(no revert data)")

\* C20: when the bytes decode neither as Error(string) nor as a panic and
\* their selector is a custom error of the interface whose arguments
\* decode, decodeRevert returns the error's name followed by the
\* stringified arguments in declaration order, joined by ", ", in
\* parentheses: "InsufficientBalance(3, 5)", and "Unauthorized()" for an
\* error without arguments.
C20_CustomErrorRendered ==
  (Reverted /\ NoReason /\ op.data.def /\ isHexString(op.data.s)) =>
    LET raw == op.data.s
        sel == slice(raw, 0, 10)
        body == "0x" \o sliceFrom(raw, 10)
    IN  /\ (CustomErrorName(sel) \in op.iface.errors /\ CustomErrorArgs(sel, body).ok) =>
             /\ startsWith(outcome.value, CustomErrorName(sel) \o "(")
             /\ Len(CustomErrorArgs(sel, body).val) = 0 =>
                  outcome.value = CustomErrorName(sel) \o "()"
        /\ (raw = InsufficientBalanceBytes /\ op.iface = TokenIface) =>
             outcome.value = "InsufficientBalance(3, 5)"
        /\ (raw = UnauthorizedBytes /\ op.iface = TokenIface) =>
             outcome.value = "Unauthorized()"

\* C20 witness: the bytes of InsufficientBalance(3, 5) were rendered
C20_Witness ==
  /\ Reverted /\ NoReason
  /\ op.data = Str(InsufficientBalanceBytes)
  /\ outcome.value = "InsufficientBalance(3, 5)"

\* C20 second case: an error without arguments
C20_WitnessNoArgs ==
  /\ Reverted /\ NoReason
  /\ op.data = Str(UnauthorizedBytes)
  /\ outcome.value = "Unauthorized()"

\* the fallback message over the first n bytes of a hex byte string
Snippet(raw, n) ==
  "(unrecognized revert: " \o slice(raw, 0, 2 + 2 * Min(n, (Len(raw) - 2) \div 2))
    \o Ellipsis \o ")"

\* decodeRevert fell back to the hex snippet of the data argument
FellBack ==
  /\ Reverted /\ NoReason
  /\ op.data.def /\ isHexString(op.data.s)
  /\ startsWith(outcome.value, "(unrecognized revert: ")

\* C21 as stated: when no interpretation succeeds, the result is
\* "(unrecognized revert: ", the first 21 bytes of the payload as hex (the
\* whole payload when shorter) and the closing ellipsis and parenthesis.
C21_SnippetIs21Bytes ==
  FellBack => outcome.value = Snippet(op.data.s, 21)

\* C21 amended: when no interpretation succeeds, the result is
\* "(unrecognized revert: ", the first 20 bytes of the payload as hex (its
\* first 42 characters, the 0x prefix included; the whole payload when
\* shorter) and the closing ellipsis and parenthesis.
C21_SnippetIs20Bytes ==
  FellBack => outcome.value = Snippet(op.data.s, 20)

\* C21 witness: a payload of 25 bytes came back cut after its 20th byte
C21_Witness ==
  /\ FellBack
  /\ op.data = Str(LongBytes)
  /\ outcome.value =
       "(unrecognized revert: 0xdeadbeef00112233445566778899aabbccddeeff"
         \o Ellipsis \o ")"

\* decodeRevert went on to interpret the bytes of the data argument
InterpretedData ==
  /\ Reverted /\ NoReason
  /\ op.data.def /\ startsWith(op.data.s, "0x")

\* C26: decodeRevert tries Error(string), panic, custom error and the hex
\* snippet in that order and stops at the first that succeeds: bytes that
\* decode as Error(string) give the text alone and bytes that decode as a
\* panic give "Panic(code)", not the rendering the custom-error resolution
\* has for them; a custom error is rendered only for other selectors; and a
\* payload with the Error(string) or panic selector whose body does not
\* decode gives neither an error nor a partial result but the
\* "(unrecognized revert: ..." fallback, the custom-error resolution having
\* nothing for it.
C26_OrderedFallThrough ==
  InterpretedData =>
    LET raw == op.data.s
        sel == slice(raw, 0, 10)
        body == "0x" \o sliceFrom(raw, 10)
        parsed == parseError(op.iface, raw)
        rendered == parsed.val.name \o "(" \o join(parsed.val.args) \o ")"
    IN  /\ outcome.status = "resolved"
        /\ (sel = ErrorSelector /\ abiDecodeString(body).ok) =>
             /\ outcome.value = abiDecodeString(body).val
             /\ parsed.ok /\ parsed.val.found /\ outcome.value # rendered
        /\ (sel = PanicSelector /\ abiDecodeUint(body).ok) =>
             /\ outcome.value = "Panic(" \o abiDecodeUint(body).val \o ")"
             /\ parsed.ok /\ parsed.val.found
        /\ (sel = ErrorSelector /\ ~abiDecodeString(body).ok) =>
             outcome.value = Snippet(raw, 20)
        /\ (sel = PanicSelector /\ ~abiDecodeUint(body).ok) =>
             outcome.value = Snippet(raw, 20)
        /\ (sel \notin {ErrorSelector, PanicSelector} /\ parsed.ok /\ parsed.val.found) =>
             outcome.value = rendered
        /\ (sel \notin {ErrorSelector, PanicSelector} /\ ~(parsed.ok /\ parsed.val.found)) =>
             outcome.value = Snippet(raw, 20)

\* C26 witness: the Error(string) selector followed by a body that does not
\* decode came back as the fallback
C26_Witness ==
  /\ InterpretedData
  /\ op.data = Str(ErrorSelector \o "ff")
  /\ outcome.value = "(unrecognized revert: 0x08c379a0ff" \o Ellipsis \o ")"

\* C26 second case: the panic selector with no body came back as the fallback
C26_WitnessPanic ==
  /\ InterpretedData
  /\ op.data = Str(PanicSelector)
  /\ outcome.value = "(unrecognized revert: 0x4e487b71" \o Ellipsis \o ")"

\* C26 third case: Error("boom") came back as its text, the first
\* interpretation, although the interface resolves it as a built-in error
C26_WitnessFirstWins ==
  /\ InterpretedData
  /\ op.data = Str(BoomBytes)
  /\ outcome.value = "boom"
  /\ parseError(op.iface, BoomBytes).val.name = "Error"

\* decodeRevert ended by returning one of the strings it has: a reason or
\* short message of the exception, the no-data text, a decoded text, a
\* panic, a rendered error or the snippet
ReturnedString ==
  /\ outcome.status = "resolved"
  /\ \/ outcome.value \in {"insufficient funds", "execution reverted",
                            "(no revert data)", "boom", ""}
     \/ startsWith(outcome.value, "Panic(")
     \/ startsWith(outcome.value, "InsufficientBalance(")
     \/ startsWith(outcome.value, "Unauthorized(")
     \/ startsWith(outcome.value, "(unrecognized revert: ")

\* C29: decodeRevert is total: whatever the exception (null and undefined
\* included, or an object with none of the fields), whatever the data
\* argument (undefined, empty, not hex, truncated or arbitrary hex) and
\* whatever the interface (its parseError raising or resolving nothing),
\* the call returns a string and does not raise.
C29_DecodeRevertTotal == Reverted => ReturnedString

\* C29 witness: called with null and bytes on which parseError raises,
\* decodeRevert returned the snippet
C29_Witness ==
  /\ Reverted
  /\ op.kind = "null"
  /\ op.data = Str(ErrorSelector \o "ff")
  /\ ~parseError(op.iface, op.data.s).ok
  /\ ReturnedString

\* C29 second case: undefined exception, undefined data
C29_WitnessNothing ==
  /\ Reverted
  /\ op.kind = "undefined"
  /\ op.data = Undefined
  /\ outcome = Resolved("(no revert data)")

\* C29 third case: bytes that are no hex string make parseError raise
C29_WitnessNotHex ==
  /\ Reverted
  /\ op.data = Str("0xzz")
  /\ NoReason
  /\ ~parseError(op.iface, "0xzz").ok
  /\ ReturnedString

-----------------------------------------------------------------------------
(* Properties of the constructor *)

\* the constructor has run and nothing else yet
Constructed == op.name = "constructor" /\ pc # "constructing"

\* the explicit address is an address
ExplicitResolves == op.multicallAddress.def /\ op.multicallAddress.s # ""

\* the table has an address for the chain id
LookupResolves == op.chainId.def /\ MulticallAddresses(op.chainId.v).def

\* C22: construction fails with the no-address error exactly when neither
\* the explicit address nor the chain-id lookup resolves to an address;
\* when one of them does, construction succeeds with a resolved address as
\* target; and as long as no client is constructed no RPC has been issued.
C22_NoAddressExactlyWhenNoneResolves ==
  /\ Constructed =>
       /\ outcome.status = "rejected" <=> ~(ExplicitResolves \/ LookupResolves)
       /\ (ExplicitResolves \/ LookupResolves) =>
            \/ ExplicitResolves /\ client.target = op.multicallAddress.s
            \/ LookupResolves /\ client.target = MulticallAddresses(op.chainId.v).s
  /\ client = NoClient => rpcLog = <<>>

-----------------------------------------------------------------------------
(* Properties of concurrent operations *)

\* how an invocation with parameters o settles when it runs alone and the
\* transport gives it the response resp
AloneOutcome(o, resp) ==
  IF ~AllEncode(o.calls) THEN Rejected(EncodeError(o.calls))
  ELSE IF resp.ok THEN Settle(ReturnOf(o.name, o.calls, resp.val))
  ELSE Rejected(resp.msg)

\* C23: with two operations in flight on one client, under every
\* interleaving of their encoding, their awaits and their decoding, each
\* operation sends the request and settles with the result it would send
\* and settle with alone, given the same transport response; the client's
\* target stays the one it was constructed with, and the request on record
\* still matches the caller's call descriptors.
C23_ConcurrentOperationsIndependent ==
  /\ client = [target |-> Target]
  /\ \A p \in Callers :
       /\ pc[p] \in {"awaiting", "responded", "settled"} /\ AllEncode(op[p].calls) =>
            rpcLog[op[p].request] =
              RequestOf(Target, op[p].name, op[p].requireSuccess, op[p].calls)
       /\ pc[p] = "settled" => outcome[p] = AloneOutcome(op[p], response[p])

\* C23 witness: b's request went out first and is still unanswered while a,
\* invoked after it over another call, has resolved with its own decoded entry
C23_Witness ==
  /\ pc["b"] = "awaiting" /\ op["b"].request = 1
  /\ op["b"].name = "aggregate3" /\ op["b"].calls = <<Descriptor("getTokenData", TRUE, 0)>>
  /\ pc["a"] = "settled" /\ op["a"].request = 2
  /\ op["a"].name = "tryAggregate"
  /\ outcome["a"] = Resolved(<<(<<TRUE, Scalar("ABC")>>)>>)

\* C23 second case: both operations settled, answered in the order opposite
\* to their requests' order, each with its own result
C23_WitnessBoth ==
  /\ pc["a"] = "settled" /\ pc["b"] = "settled"
  /\ op["a"].request = 2 /\ op["b"].request = 1
  /\ op["a"].name = "tryAggregate" /\ op["b"].name = "tryAggregate"
  /\ outcome["a"] = Resolved(<<(<<TRUE, Scalar("ABC")>>)>>)
  /\ outcome["b"] = Resolved(<<(<<FALSE, Scalar("0xdeadbeef")>>)>>)

-----------------------------------------------------------------------------
(* Properties of aggregate3Value over descriptors without a value *)

\* the sum of the values of a list of calls, an absent value counting zero
RECURSIVE SumDefaultingToZero(_)
SumDefaultingToZero(calls) ==
  IF Len(calls) = 0 THEN 0
  ELSE (IF calls[1].value = NoValue THEN 0 ELSE calls[1].value)
         + SumDefaultingToZero(Tail(calls))

\* C24: in aggregate3Value a call descriptor that specifies no value counts
\* as value zero: the request goes out with the sum of the values that are
\* specified and the operation is not rejected for the missing value.
C24_MissingValueIsZero ==
  (op.name = "aggregate3Value" /\ AllEncode(op.calls)) =>
    /\ Len(rpcLog) = 1
    /\ rpcLog[1].value = SumDefaultingToZero(op.calls)
    /\ outcome.status = "rejected" => ~response.ok /\ response # NoResponse

\* the per-result decoding of the other decoding operation of the class,
\* applied to the calls and the raw array of the operation that has settled
emOtherReturn ==
  IF op.name = "aggregate3"
    THEN emTryAggregateReturn(op.calls, response.val)
    ELSE emAggregate3Return(op.calls, response.val)

\* C25: every decoding operation applies the same per-result decode
\* algorithm: for the calls and the raw array of a settled tryAggregate or
\* aggregate3, the array the operation returned is the array the other
\* operation returns for them, normalization included.
C25_SameDecodeAlgorithm ==
  (pc = "settled" /\ outcome.status = "resolved"
     /\ op.name \in {"tryAggregate", "aggregate3"})
    => outcome.value = emOtherReturn.val

-----------------------------------------------------------------------------
(* Properties of the encoding of a batch *)

\* a batching operation was called with a call that does not encode
EncodeFailed == op.name \in BatchOps /\ ~AllEncode(op.calls)

-----------------------------------------------------------------------------
(* Properties of the fan-out over any raw array *)

\* a decoding operation has run to its end on an answer of the transport
FannedOut == pc = "settled" /\ op.name \in DecodingOps /\ response.ok

\* raw result i reports success and its bytes decode against the function
\* of the call at its position, if there is one
DecodesAt(i) ==
  /\ RawResults[i].success
  /\ i <= Len(op.calls)
  /\ decodeFunctionResult(FnOf(i), RawResults[i].returnData).ok

\* C28: once the transport has answered with a raw array, the fan-out of a
\* decoding operation does not raise: whatever the length of the raw array
\* next to the input calls, the operation resolves with exactly one entry
\* per raw result, entry i is flagged true only if raw result i reported
\* success and decoded, and an entry flagged false carries a string: the
\* raw bytes as hex or a "Data handling error: " message.
C28_FanOutNeverRaises ==
  FannedOut =>
    /\ outcome.status = "resolved"
    /\ Len(Entries) = Len(RawResults)
    /\ \A i \in 1..Len(Entries) :
         /\ Entries[i][1] => DecodesAt(i)
         /\ ~Entries[i][1] =>
              /\ Entries[i][2].k = "scalar"
              /\ \/ Entries[i][2].v = RawResults[i].returnData
                 \/ startsWith(Entries[i][2].v, "Data handling error: ")

\* C28 witness: the transport answered a batch with one result more than it
\* has calls, a successful one, and the operation resolved with an entry for
\* it, flagged false
C28_Witness ==
  /\ FannedOut
  /\ Len(op.calls) > 0
  /\ Len(RawResults) = Len(op.calls) + 1
  /\ RawResults[Len(RawResults)].success
  /\ outcome.status = "resolved"
  /\ Len(Entries) = Len(RawResults)
  /\ ~Entries[Len(Entries)][1]

\* C28 second case: fewer results than calls
C28_WitnessShort ==
  /\ FannedOut
  /\ Len(RawResults) < Len(op.calls)
  /\ outcome.status = "resolved"
  /\ Len(Entries) = Len(RawResults)

====
